---- MODULE Spec2Model ----
(***************************************************************************)
(* A model of nba_dashboard.py: one Streamlit script that is executed top  *)
(* to bottom on every UI interaction ("rerun").  The only state that       *)
(* survives a rerun is the st.cache_data store behind load_data; every     *)
(* script variable is rebuilt by each run.                                 *)
(*                                                                         *)
(* Numbers.  The per-game statistics are kept in tenths (30.0 is 300), so  *)
(* an f"{x:.1f}" rendering is an integer number of tenths.  A mean is the  *)
(* pair (sum, count); Fmt1 rounds it to the nearest tenth, ties to the     *)
(* even tenth, which is what Python's float formatting does where the      *)
(* quotient is exactly representable or no tie exists: that is the case    *)
(* for the values used here (multiples of 0.5, at most five rows).         *)
(*                                                                         *)
(* Tables are sequences of row records.  Row i of the model is the row     *)
(* with pandas index label i-1.                                            *)
(***************************************************************************)
EXTENDS Integers, Sequences, FiniteSets, TLC

\* ---------------------------------------------------------------- bounds
\* Longest table drawn for Spec.
MaxRows == 2
\* Most executions of pd.read_csv in one process.
MaxReads == 2
\* SpecTop draws tables of TopN .. TopN + MaxExtraRows rows.
MaxExtraRows == 1

\* ------------------------------------------------------ program constants
\* df.nlargest(10, 'efficiency')
TopN == 10
\* default=df['name'].iloc[:2].tolist()
DefaultCount == 2
\* df['season'] = '2024-25'
SeasonLabel == "2024-25"
\* positions = ['All'] + ...
AllPositions == "All"

\* --------------------------------------------------------------- helpers
Range(s) == {s[i] : i \in DOMAIN s}

Min2(a, b) == IF a <= b THEN a ELSE b

\* The columns of top_25_nba_players.csv, in tenths where numeric.
CsvColumns ==
    {"name", "team", "position", "ppg", "rpg", "apg", "spg", "bpg",
     "fg_pct", "efficiency"}

NumericColumns == {"ppg", "rpg", "apg", "spg", "bpg", "fg_pct", "efficiency"}

CsvRow(n, t, p, ppg, rpg, apg, spg, bpg, fg, eff) ==
    [name |-> n, team |-> t, position |-> p, ppg |-> ppg, rpg |-> rpg,
     apg |-> apg, spg |-> spg, bpg |-> bpg, fg_pct |-> fg, efficiency |-> eff]

\* The rows the CSV files of Spec are made of: two players of one team, two
\* players of one position, ppg 30.0 and 20.0, an efficiency tie, and a
\* negative efficiency.
RowPool ==
    { CsvRow("A", "LAL", "PG", 300, 75, 80, 15, 5, 505, 250),
      CsvRow("B", "LAL", "C", 200, 120, 30, 10, 20, 600, 250),
      CsvRow("C", "BOS", "PG", 255, 45, 65, 10, 0, 470, -15) }

\* Well-formed CSV contents: 1..MaxRows rows, names unique.
CsvTables ==
    { t \in UNION { [1..k -> RowPool] : k \in 1..MaxRows } :
        \A i, j \in DOMAIN t : i # j => t[i].name # t[j].name }

\* The names of the rows of SpecTop's tables.
TopNames ==
    <<"P01", "P02", "P03", "P04", "P05", "P06", "P07", "P08", "P09", "P10",
      "P11", "P12", "P13", "P14">>

\* Row i of a table of SpecTop: efficiency 20.0 when i is in hi, else 10.0.
TopRow(i, hi) ==
    CsvRow(TopNames[i], IF i % 3 = 0 THEN "BOS" ELSE "LAL",
           IF i % 2 = 0 THEN "C" ELSE "PG", 200, 50, 50, 10, 5, 500,
           IF i \in hi THEN 200 ELSE 100)

\* Well-formed CSV contents of TopN .. TopN + MaxExtraRows rows whose
\* efficiency column takes two values, so that ties cross the cut.
TopTables ==
    { [i \in 1..k |-> TopRow(i, hi)] :
        k \in TopN..(TopN + MaxExtraRows), hi \in SUBSET (1..(TopN + MaxExtraRows)) }

\* A file on disk: present and well-formed, absent, or not parseable.
CsvFile(status, rows) == [status |-> status, rows |-> rows]

\* pd.read_csv: the exception it raises, "none" when it returns a table.
read_csv_error(file) ==
    CASE file.status = "missing" -> "FileNotFoundError"
      [] file.status = "malformed" -> "ParserError"
      [] OTHER -> "none"

\* A read that takes the first data row for a second header line.
read_csv_skip_row(file) == Tail(file.rows)

\* pd.read_csv on a well-formed file: one record per CSV row.
read_csv(file) == file.rows

\* load_data's body after the read: df['season'] = '2024-25'.
AddSeason(rows) ==
    [i \in 1..Len(rows) |->
        [c \in CsvColumns \cup {"season"} |->
            IF c = "season" THEN SeasonLabel ELSE rows[i][c]]]

\* load_data without its decorator: every call runs the body.
NeverHit(c) == FALSE

\* @st.cache_data: an entry is returned without running the function body.
CacheHit(c) == c.hit

\* A cached table an earlier run has dropped row 0 of in place.
CachedTableMutated(c) == Tail(c.table)

\* The table a cache hit hands to the script.
CachedTable(c) == c.table

\* A load error that is swallowed: the script goes on without a table.
OnLoadErrorContinue == "season"

\* An exception of load_data is not caught: the run ends in the fault state.
OnLoadError == "fault"

\* s.unique(): the distinct values in order of first appearance.
RECURSIVE UniqueFrom(_, _, _)
UniqueFrom(s, i, acc) ==
    IF i > Len(s) THEN acc
    ELSE UniqueFrom(s, i + 1,
                    IF s[i] \in Range(acc) THEN acc ELSE Append(acc, s[i]))

Unique(s) == UniqueFrom(s, 1, <<>>)

\* df[c]: one column of a table.
Column(table, c) == [i \in 1..Len(table) |-> table[i][c]]

\* The filter with its comparison inverted.
RowsExcept(table, c, v) == SelectSeq(table, LAMBDA r : r[c] # v)

\* df[df[c] == v]: the rows whose column c equals v, in table order.
RowsWhere(table, c, v) == SelectSeq(table, LAMBDA r : r[c] = v)

\* df[df['name'].isin(names)]
RowsIn(table, names) == SelectSeq(table, LAMBDA r : r.name \in names)

RECURSIVE SumFrom(_, _)
SumFrom(s, i) == IF i > Len(s) THEN 0 ELSE s[i] + SumFrom(s, i + 1)

\* Series.sum()
Sum(s) == SumFrom(s, 1)

\* A value that is not a number (the mean or max of no rows).
NaN == [nan |-> TRUE, tenths |-> 0]

Num(x) == [nan |-> FALSE, tenths |-> x]

\* Series.mean(): the exact quotient sum / n as a pair; NaN for no rows.
Mean(s) ==
    IF Len(s) = 0 THEN [nan |-> TRUE, sum |-> 0, n |-> 1]
    ELSE [nan |-> FALSE, sum |-> Sum(s), n |-> Len(s)]

\* Series.max(): NaN for no rows.
Max(s) ==
    IF Len(s) = 0 THEN NaN
    ELSE Num(CHOOSE x \in Range(s) : \A y \in Range(s) : y <= x)

\* sum / n in tenths rounded to the nearest tenth, ties to the even tenth.
RoundHalfEven(sum, n) ==
    LET q == sum \div n
        r == sum % n
    IN  IF 2 * r < n THEN q
        ELSE IF 2 * r > n THEN q + 1
        ELSE IF q % 2 = 0 THEN q ELSE q + 1

\* f"{m:.1f}" of a mean.
Fmt1(m) == IF m.nan THEN NaN ELSE Num(RoundHalfEven(m.sum, m.n))

\* f"{x:.1f}" of a Series.max() or of one cell: already a number of tenths.
Fmt1Value(x) == x

\* ------------------------------------------------------- library reductions
\* The statistics the comparison metrics and bar chart show.
MetricColumns == <<"ppg", "rpg", "apg">>

\* categories = ['ppg', 'rpg', 'apg', 'spg', 'bpg']
RadarCategories == <<"ppg", "rpg", "apg", "spg", "bpg">>

\* The columns of the groupby(...).agg({...: 'mean'}) calls.
AggColumns == {"ppg", "rpg", "apg", "efficiency"}

\* st.metric(label, f"{mean:.1f}", f"Max: {max:.1f}") for each statistic.
Metrics(table) ==
    [c \in Range(MetricColumns) |->
        [value |-> Fmt1(Mean(Column(table, c))),
         delta |-> Fmt1Value(Max(Column(table, c)))]]

\* df[['name', ...]].melt(id_vars=['name'], value_vars=vars): one row per
\* statistic and table row, statistic by statistic.
Melt(table, vars) ==
    [k \in 1..(Len(vars) * Len(table)) |->
        LET v == ((k - 1) \div Len(table)) + 1
            i == ((k - 1) % Len(table)) + 1
        IN  [name |-> table[i].name, Statistic |-> vars[v],
             Value |-> table[i][vars[v]]]]

\* The exception of the radar chart code, "none" when it builds the chart:
\* comparison_df[comparison_df['name'] == player].iloc[0] raises IndexError
\* when no row of comparison_df has that name, and max(comparison_df[cat])
\* raises ValueError on a comparison_df without rows.
RadarError(comparison, selected) ==
    IF \E p \in selected : RowsWhere(comparison, "name", p) = <<>>
    THEN "IndexError"
    ELSE IF comparison = <<>> THEN "ValueError" ELSE "none"

\* The radar chart: one trace per selected player, and the radial range
\* max([max(comparison_df[cat]) for cat in categories]).
Radar(comparison, selected) ==
    [traces |->
        [p \in selected |->
            LET row == RowsWhere(comparison, "name", p)[1]
            IN  [k \in 1..Len(RadarCategories) |-> row[RadarCategories[k]]]],
     range |->
        CHOOSE x \in { Max(Column(comparison, RadarCategories[k])).tenths :
                         k \in 1..Len(RadarCategories) } :
            \A k \in 1..Len(RadarCategories) :
                Max(Column(comparison, RadarCategories[k])).tenths <= x]

\* fig_radar before the script builds it.
NoRadar == [traces |-> <<>>, range |-> 0]

\* df[key].value_counts(): how many rows each key value has.
value_counts(table, key) ==
    [k \in Range(Column(table, key)) |-> Len(RowsWhere(table, key, k))]

\* df.groupby(key).agg({c: 'mean' ...}): per key value, the mean of each
\* aggregated column over the rows of that key.
GroupMean(table, key) ==
    [k \in Range(Column(table, key)) |->
        [c \in AggColumns |-> Mean(Column(RowsWhere(table, key, k), c))]]

\* The first n picks of df.nlargest(n, col) with keep='first': each pick is
\* the earliest row among those of the largest value not picked yet.
RECURSIVE PickLargest(_, _, _, _, _)
PickLargest(table, col, left, n, acc) ==
    IF n = 0 \/ left = {} THEN acc
    ELSE LET top == CHOOSE i \in left :
                        /\ \A j \in left : table[j][col] <= table[i][col]
                        /\ \A j \in left :
                              table[j][col] = table[i][col] => i <= j
         IN  PickLargest(table, col, left \ {top}, n - 1, Append(acc, top))

\* The picks of nlargest with keep='last': the latest row among equals.
RECURSIVE PickLargestLast(_, _, _, _, _)
PickLargestLast(table, col, left, n, acc) ==
    IF n = 0 \/ left = {} THEN acc
    ELSE LET top == CHOOSE i \in left :
                        /\ \A j \in left : table[j][col] <= table[i][col]
                        /\ \A j \in left :
                              table[j][col] = table[i][col] => j <= i
         IN  PickLargestLast(table, col, left \ {top}, n - 1, Append(acc, top))

nlargest_keep_last(table, n, col) ==
    PickLargestLast(table, col, DOMAIN table, n, <<>>)

\* df.nlargest(n, col): the picked rows, as their row numbers in df.
nlargest(table, n, col) == PickLargest(table, col, DOMAIN table, n, <<>>)

\* px.bar(top_10_efficiency, x='name', y='efficiency')
BarOf(table, rows) ==
    [k \in 1..Len(rows) |->
        [name |-> table[rows[k]].name, efficiency |-> table[rows[k]].efficiency]]

\* px.scatter(frame, x='ppg', y='rpg', color='position', hover_data=[...])
ScatterOf(frame) ==
    [i \in 1..Len(frame) |->
        [ppg |-> frame[i].ppg, rpg |-> frame[i].rpg,
         position |-> frame[i].position, name |-> frame[i].name,
         team |-> frame[i].team]]

\* The comparison branch taken whatever the selection.
AlwaysSelected(selected) == TRUE

\* `if selected_players:` : a non-empty list is true.
HasSelection(selected) == selected # {}

\* default=df['name'].iloc[:2].tolist()
DefaultPlayers(table) ==
    Range(SubSeq(Column(table, "name"), 1, Min2(DefaultCount, Len(table))))

\* A player record before the script fills it.
NoRow == AddSeason(<<CsvRow("", "", "", 0, 0, 0, 0, 0, 0, 0)>>)[1]

\* The seven st.metric values of the Individual Stats tab.
PlayerCard(row) == [c \in NumericColumns |-> Fmt1Value(row[c])]

\* ------------------------------------------------------------------ state
VARIABLES
    csv,                \* the file top_25_nba_players.csv
    cache,              \* the st.cache_data entry of load_data
    csv_reads,          \* executions of pd.read_csv in this process
    run_reads,          \* executions of pd.read_csv in this run
    pc,                 \* the next step of the running script
    fault,              \* the exception that ended the run, or "none"
    phases,             \* the phases this run has executed, in order
    first,              \* what the first finished run of the process showed
    df, seasons, selected_season, filtered_df, selected_players, positions,
    selected_position,
    tab1_view, comparison_df, metrics, fig_comparison, fig_radar,
    selected_player, player_stats, fig_player,
    position_counts, position_stats, fig_scatter,
    team_stats, top_10_efficiency, fig_bar, team_counts

processVars == <<csv, cache, csv_reads>>

runVars == <<run_reads, pc, fault, phases>>

sidebarVars ==
    <<seasons, selected_season, filtered_df, selected_players, positions,
      selected_position>>

tab1Vars == <<tab1_view, comparison_df, metrics, fig_comparison, fig_radar>>

tab2Vars == <<selected_player, player_stats, fig_player>>

tab3Vars == <<position_counts, position_stats, fig_scatter>>

tab4Vars == <<team_stats, top_10_efficiency, fig_bar, team_counts>>

vars ==
    <<processVars, runVars, first, df, sidebarVars, tab1Vars, tab2Vars,
      tab3Vars, tab4Vars>>

\* The widget values a run has read.
Widgets ==
    <<selected_season, selected_players, selected_position, selected_player>>

\* Everything a run has put on the page.
Rendered ==
    <<tab1_view, metrics, fig_comparison, fig_radar, player_stats, fig_player,
      position_counts, position_stats, fig_scatter, team_stats, fig_bar,
      team_counts, fault>>

\* What the tabs show that reads the full table only.
FullTableViews ==
    <<position_counts, position_stats, team_stats, top_10_efficiency, fig_bar,
      team_counts>>

\* A script namespace with nothing assigned yet.
FreshRun ==
    /\ df = <<>>
    /\ seasons = <<>> /\ selected_season = "" /\ filtered_df = <<>>
    /\ selected_players = {} /\ positions = <<>> /\ selected_position = ""
    /\ tab1_view = "none" /\ comparison_df = <<>> /\ metrics = Metrics(<<>>)
    /\ fig_comparison = <<>> /\ fig_radar = NoRadar
    /\ selected_player = "" /\ player_stats = NoRow /\ fig_player = <<>>
    /\ position_counts = <<>> /\ position_stats = <<>> /\ fig_scatter = <<>>
    /\ team_stats = <<>> /\ top_10_efficiency = <<>> /\ fig_bar = <<>>
    /\ team_counts = <<>>

\* The process starts with an empty cache and runs the script once.
InitWith(files) ==
    /\ csv \in files
    /\ cache = [hit |-> FALSE, table |-> <<>>]
    /\ csv_reads = 0
    /\ run_reads = 0
    /\ pc = "load"
    /\ fault = "none"
    /\ phases = <<>>
    /\ FreshRun
    /\ first = [set |-> FALSE, ended |-> "", widgets |-> Widgets,
                rendered |-> Rendered, full |-> FullTableViews, card |-> NoRow]

BrokenFiles == {CsvFile("missing", <<>>), CsvFile("malformed", <<>>)}

Init == InitWith(BrokenFiles \cup {CsvFile("ok", t) : t \in CsvTables})

InitTop == InitWith({CsvFile("ok", t) : t \in TopTables})

\* ---------------------------------------------------------------- the script
\* The phases each step of the script goes through, in order.
PhasesOfSeason == <<"widget", "filter">>

PhasesOfPlayers == <<"widget">>

PhasesOfPosition(p) ==
    IF p # AllPositions THEN <<"widget", "filter">> ELSE <<"widget">>

PhasesOfTab1(selected) ==
    IF HasSelection(selected) THEN <<"filter", "aggregate", "render">>
    ELSE <<"render">>

PhasesOfTab2 == <<"widget", "filter", "render">>

PhasesOfTab3 == <<"aggregate", "render">>

PhasesOfTab4 == <<"aggregate", "render">>

\* The frame the season filter reads: df[df['season'] == selected_season].
SeasonFrame == df

\* The frame the position filter narrows.
PositionFilterFrame == filtered_df

\* The frame comparison_df is taken from.
ComparisonFrame == filtered_df

\* The frame the Individual Stats tab reads.
PlayerFrame == df

\* The position tab reading the sidebar-filtered frame.
PositionFrameFiltered == filtered_df

\* The frame position_counts and position_stats are computed from.
PositionFrame == df

\* The frame the points-vs-rebounds scatter plots.
ScatterFrame == filtered_df

\* The frame team_stats, top_10_efficiency and team_counts are computed from.
TeamFrame == df

\* df = load_data(): a cache hit returns the stored table; a miss runs the
\* body, which reads the CSV, and stores what it returns.  An exception of
\* the body is stored nowhere and ends the run.
Load ==
    /\ pc = "load"
    /\ phases' = Append(phases, "load")
    /\ IF CacheHit(cache)
       THEN /\ df' = CachedTable(cache)
            /\ pc' = "season"
            /\ UNCHANGED <<cache, csv_reads, run_reads, fault>>
       ELSE /\ csv_reads' = csv_reads + 1
            /\ run_reads' = run_reads + 1
            /\ IF read_csv_error(csv) = "none"
               THEN /\ df' = AddSeason(read_csv(csv))
                    /\ cache' = [hit |-> TRUE, table |-> df']
                    /\ pc' = "season"
                    /\ UNCHANGED fault
               ELSE /\ fault' = read_csv_error(csv)
                    /\ pc' = OnLoadError
                    /\ UNCHANGED <<df, cache>>
    /\ UNCHANGED <<csv, first, sidebarVars, tab1Vars, tab2Vars, tab3Vars, tab4Vars>>

\* The season select box and the season filter.  sorted(..., reverse=True)
\* of the one label load_data writes is that label.
SeasonSelect ==
    /\ pc = "season"
    /\ seasons' = Unique(Column(df, "season"))
    /\ \E s \in Range(seasons') :
          /\ selected_season' = s
          /\ filtered_df' = RowsWhere(SeasonFrame, "season", s)
    /\ phases' = phases \o PhasesOfSeason
    /\ pc' = "players"
    /\ UNCHANGED <<processVars, run_reads, fault, first, df, selected_players,
                   positions, selected_position, tab1Vars, tab2Vars, tab3Vars,
                   tab4Vars>>

SetPlayers(sel) ==
    /\ pc = "players"
    /\ selected_players' = sel
    /\ phases' = phases \o PhasesOfPlayers
    /\ pc' = "position"
    /\ UNCHANGED <<processVars, run_reads, fault, first, df, seasons,
                   selected_season, filtered_df, positions, selected_position,
                   tab1Vars, tab2Vars, tab3Vars, tab4Vars>>

\* The multiselect: any set of the offered names (the order of selection is
\* not kept).
PlayersSelect ==
    \E sel \in SUBSET Range(Unique(Column(df, "name"))) : SetPlayers(sel)

\* The multiselect left at its default, or cleared.
PlayersDefaultOrNone ==
    \E sel \in {{}, DefaultPlayers(df)} : SetPlayers(sel)

\* The position select box and the position filter.
PositionSelect ==
    /\ pc = "position"
    /\ positions' = <<AllPositions>> \o Unique(Column(df, "position"))
    /\ \E p \in Range(positions') :
          /\ selected_position' = p
          /\ filtered_df' =
                IF p # AllPositions
                THEN RowsWhere(PositionFilterFrame, "position", p)
                ELSE filtered_df
          /\ phases' = phases \o PhasesOfPosition(p)
    /\ pc' = "tab1"
    /\ UNCHANGED <<processVars, run_reads, fault, first, df, seasons,
                   selected_season, selected_players, tab1Vars, tab2Vars,
                   tab3Vars, tab4Vars>>

\* Tab 1.  With players selected: comparison_df, the three metrics and the
\* bar chart are built and shown, then the radar loop takes row 0 of each
\* selected player; the IndexError of a player without a row ends the run.
\* With none selected: st.info.
Tab1 ==
    /\ pc = "tab1"
    /\ phases' = phases \o PhasesOfTab1(selected_players)
    /\ IF HasSelection(selected_players)
       THEN /\ tab1_view' = "comparison"
            /\ comparison_df' = RowsIn(ComparisonFrame, selected_players)
            /\ metrics' = Metrics(comparison_df')
            /\ fig_comparison' = Melt(comparison_df', MetricColumns)
            /\ IF RadarError(comparison_df', selected_players) # "none"
               THEN /\ fault' = RadarError(comparison_df', selected_players)
                    /\ pc' = "fault"
                    /\ UNCHANGED fig_radar
               ELSE /\ fig_radar' = Radar(comparison_df', selected_players)
                    /\ pc' = "tab2"
                    /\ UNCHANGED fault
       ELSE /\ tab1_view' = "info"
            /\ pc' = "tab2"
            /\ UNCHANGED <<comparison_df, metrics, fig_comparison, fig_radar, fault>>
    /\ UNCHANGED <<processVars, run_reads, first, df, sidebarVars, tab2Vars,
                   tab3Vars, tab4Vars>>

\* Tab 2 for the player the select box holds: row 0 of that player's rows.
ShowPlayer(p) ==
    /\ pc = "tab2"
    /\ selected_player' = p
    /\ phases' = phases \o PhasesOfTab2
    /\ IF RowsWhere(PlayerFrame, "name", p) = <<>>
       THEN /\ fault' = "IndexError"
            /\ pc' = "fault"
            /\ UNCHANGED <<player_stats, fig_player>>
       ELSE /\ player_stats' = RowsWhere(PlayerFrame, "name", p)[1]
            /\ fig_player' = PlayerCard(player_stats')
            /\ pc' = "tab3"
            /\ UNCHANGED fault
    /\ UNCHANGED <<processVars, run_reads, first, df, sidebarVars, tab1Vars,
                   tab3Vars, tab4Vars>>

Tab2 == \E p \in Range(Unique(Column(df, "name"))) : ShowPlayer(p)

\* Tab 2 with the select box left at index 0.
Tab2Default == ShowPlayer(Unique(Column(df, "name"))[1])

\* Tab 3: the position pie, the per-position means, the scatter.
Tab3 ==
    /\ pc = "tab3"
    /\ position_counts' = value_counts(PositionFrame, "position")
    /\ position_stats' = GroupMean(PositionFrame, "position")
    /\ fig_scatter' = ScatterOf(ScatterFrame)
    /\ phases' = phases \o PhasesOfTab3
    /\ pc' = "tab4"
    /\ UNCHANGED <<processVars, run_reads, fault, first, df, sidebarVars,
                   tab1Vars, tab2Vars, tab4Vars>>

\* Tab 4: the per-team means, the top-10 bar chart, the per-team counts.
Tab4 ==
    /\ pc = "tab4"
    /\ team_stats' = GroupMean(TeamFrame, "team")
    /\ top_10_efficiency' = nlargest(TeamFrame, TopN, "efficiency")
    /\ fig_bar' = BarOf(TeamFrame, top_10_efficiency')
    /\ team_counts' = value_counts(TeamFrame, "team")
    /\ phases' = phases \o PhasesOfTab4
    /\ pc' = "footer"
    /\ UNCHANGED <<processVars, run_reads, fault, first, df, sidebarVars,
                   tab1Vars, tab2Vars, tab3Vars>>

\* The footer: the script has run to its end.
Footer ==
    /\ pc = "footer"
    /\ pc' = "done"
    /\ UNCHANGED <<processVars, run_reads, fault, phases, first, df,
                   sidebarVars, tab1Vars, tab2Vars, tab3Vars, tab4Vars>>

\* What a finished run leaves on the page, as the next runs are compared
\* with it.
Snapshot ==
    [set |-> TRUE, ended |-> pc, widgets |-> Widgets, rendered |-> Rendered,
     full |-> FullTableViews, card |-> player_stats]

\* A UI interaction after a run has ended: the script starts again with an
\* empty namespace.  Only the cache entry outlives the run.
Rerun ==
    /\ pc \in {"done", "fault"}
    /\ csv_reads < MaxReads
    /\ first' = IF first.set THEN first ELSE Snapshot
    /\ pc' = "load"
    /\ fault' = "none"
    /\ phases' = <<>>
    /\ run_reads' = 0
    /\ df' = <<>>
    /\ seasons' = <<>> /\ selected_season' = "" /\ filtered_df' = <<>>
    /\ selected_players' = {} /\ positions' = <<>> /\ selected_position' = ""
    /\ tab1_view' = "none" /\ comparison_df' = <<>> /\ metrics' = Metrics(<<>>)
    /\ fig_comparison' = <<>> /\ fig_radar' = NoRadar
    /\ selected_player' = "" /\ player_stats' = NoRow /\ fig_player' = <<>>
    /\ position_counts' = <<>> /\ position_stats' = <<>> /\ fig_scatter' = <<>>
    /\ team_stats' = <<>> /\ top_10_efficiency' = <<>> /\ fig_bar' = <<>>
    /\ team_counts' = <<>>
    /\ UNCHANGED processVars

Next ==
    \/ Load
    \/ SeasonSelect
    \/ PlayersSelect
    \/ PositionSelect
    \/ Tab1
    \/ Tab2
    \/ Tab3
    \/ Tab4
    \/ Footer
    \/ Rerun

Spec == Init /\ [][Next]_vars

\* One run over a long table, the player widgets at their defaults.
NextTop ==
    \/ Load
    \/ SeasonSelect
    \/ PlayersDefaultOrNone
    \/ PositionSelect
    \/ Tab1
    \/ Tab2Default
    \/ Tab3
    \/ Tab4
    \/ Footer

SpecTop == InitTop /\ [][NextTop]_vars

\* ------------------------------------------------------------------ claims
\* The run has been through tab 1.
RanTab1 == tab1_view # "none"

\* The run has been through the position select box and filter.
RanSidebar == selected_position # ""

\* The rows of df the sidebar filters let through, as row numbers.
PassingRows ==
    { i \in DOMAIN df :
        /\ df[i].season = selected_season
        /\ selected_position = AllPositions \/ df[i].position = selected_position }

\* C1: given a well-formed CSV with all its columns, no combination of
\* widget values makes a run end in a fault; in particular the radar loop
\* never faults under a position filter other than 'All'.
NoFaultOnWellFormedCsv == read_csv_error(csv) = "none" => pc # "fault"

\* C2: whenever tab 1 runs with no player selected it shows the info
\* message, computes no comparison frame, metric or chart, does not fault,
\* and the run can go on through the remaining tabs.
EmptySelectionShowsInfo ==
    (RanTab1 /\ selected_players = {}) =>
        /\ tab1_view = "info"
        /\ comparison_df = <<>>
        /\ metrics = Metrics(<<>>)
        /\ fig_comparison = <<>>
        /\ fig_radar = NoRadar
        /\ fault = "none"
        /\ pc \in {"tab2", "tab3", "tab4", "footer", "done"}
        /\ pc # "done" => ENABLED (Tab2 \/ Tab3 \/ Tab4 \/ Footer)

\* C2 witness: a run with no player selected and a position filter set has
\* rendered every tab.
EmptySelectionRunDone ==
    /\ pc = "done"
    /\ selected_players = {}
    /\ tab1_view = "info"
    /\ selected_position # AllPositions
    /\ team_counts # <<>>

\* C3: after the sidebar, filtered_df holds exactly the rows of the loaded
\* table whose position is the selected one (all of them, of the selected
\* season, in table order), and the whole table when 'All' is selected; the
\* selection is one of 'All' and the positions present in the table.
PositionFilterExact ==
    RanSidebar =>
        /\ selected_position \in
              {AllPositions} \cup {df[i].position : i \in DOMAIN df}
        /\ \A k \in DOMAIN filtered_df :
              \E i \in PassingRows : filtered_df[k] = df[i]
        /\ \A i \in PassingRows : \E k \in DOMAIN filtered_df : filtered_df[k] = df[i]
        /\ Len(filtered_df) = Cardinality(PassingRows)
        /\ \A k, l \in DOMAIN filtered_df :
              k < l => \E i, j \in PassingRows :
                          i < j /\ filtered_df[k] = df[i] /\ filtered_df[l] = df[j]
        /\ selected_position = AllPositions => filtered_df = df

\* C3 witness: a position filter that keeps some rows and drops others.
PositionFilterNarrows ==
    /\ RanSidebar
    /\ selected_position # AllPositions
    /\ filtered_df # <<>>
    /\ Len(filtered_df) < Len(df)

\* C4: the ppg mean the comparison view shows is the arithmetic mean of the
\* ppg values of the selected players (to one decimal), for every non-empty
\* selection and every position filter setting.  (A comparison without rows
\* shows "nan"; that case is left aside here.)
MeanOverSelectedPlayers ==
    (RanTab1 /\ selected_players # {}) =>
        LET chosen == { i \in DOMAIN df : df[i].name \in selected_players }
            total == Sum([k \in 1..Len(df) |->
                              IF k \in chosen THEN df[k].ppg ELSE 0])
        IN  ~metrics["ppg"].value.nan =>
              /\ 2 * (Cardinality(chosen) * metrics["ppg"].value.tenths - total)
                    <= Cardinality(chosen)
              /\ 2 * (total - Cardinality(chosen) * metrics["ppg"].value.tenths)
                    <= Cardinality(chosen)

\* The run has been through tab 4.
RanTab4 == pc \in {"footer", "done"}

\* The rows of df that top_10_efficiency leaves out.
LeftOut == DOMAIN df \ Range(top_10_efficiency)

\* C5: nlargest(10, 'efficiency') over the loaded table returns exactly 10
\* rows of it (the table having at least 10), sorted descending by
\* efficiency, rows of equal efficiency in original row order and the
\* earliest of them kept at the cut; no row left out has a greater
\* efficiency than a row returned; the rows come from the full table
\* whatever the season, player and position selections, and the bar chart
\* shows them.
TopTenByEfficiency ==
    RanTab4 =>
        /\ Len(top_10_efficiency) = Min2(TopN, Len(df))
        /\ Len(df) >= TopN => Len(top_10_efficiency) = TopN
        /\ \A k \in DOMAIN top_10_efficiency : top_10_efficiency[k] \in DOMAIN df
        /\ \A k, l \in DOMAIN top_10_efficiency :
              k < l =>
                /\ top_10_efficiency[k] # top_10_efficiency[l]
                /\ df[top_10_efficiency[k]].efficiency
                      >= df[top_10_efficiency[l]].efficiency
                /\ df[top_10_efficiency[k]].efficiency
                      = df[top_10_efficiency[l]].efficiency
                      => top_10_efficiency[k] < top_10_efficiency[l]
        /\ \A i \in LeftOut : \A k \in DOMAIN top_10_efficiency :
              /\ df[i].efficiency <= df[top_10_efficiency[k]].efficiency
              /\ df[i].efficiency = df[top_10_efficiency[k]].efficiency
                    => top_10_efficiency[k] < i
        /\ Len(fig_bar) = Len(top_10_efficiency)
        /\ \A k \in DOMAIN fig_bar :
              /\ fig_bar[k].name = df[top_10_efficiency[k]].name
              /\ fig_bar[k].efficiency = df[top_10_efficiency[k]].efficiency

\* C5 witness: a table of more than 10 rows under a position filter that
\* drops rows, where a row left out ties with a row returned and the rows
\* returned hold both efficiencies.
TopTenCutsATie ==
    /\ pc = "done"
    /\ Len(df) > TopN
    /\ selected_position # AllPositions
    /\ Len(filtered_df) < Len(df)
    /\ \E i \in LeftOut : \E k \in DOMAIN top_10_efficiency :
          df[i].efficiency = df[top_10_efficiency[k]].efficiency
    /\ \E k, l \in DOMAIN top_10_efficiency :
          df[top_10_efficiency[k]].efficiency > df[top_10_efficiency[l]].efficiency

\* C6 as stated: across any sequence of reruns the CSV is read at most once.
CsvReadAtMostOnce == csv_reads <= 1

\* C6 amended: a successful load is cached for the life of the process.  A
\* well-formed CSV is read exactly once; from then on the cache holds the
\* table as loaded, every run's df is that table, and no run reads the file
\* again.  A failed load is not cached: each later run reads the CSV again,
\* once.  No run starts with state of an earlier run.
LoadedOnceThenCached ==
    /\ read_csv_error(csv) = "none" => csv_reads <= 1
    /\ cache.hit =>
          /\ csv_reads = 1
          /\ Len(cache.table) = Len(csv.rows)
          /\ \A i \in DOMAIN cache.table :
                /\ cache.table[i].season = SeasonLabel
                /\ \A c \in CsvColumns : cache.table[i][c] = csv.rows[i][c]
    /\ df # <<>> => cache.hit /\ df = cache.table
    /\ (first.set /\ cache.hit) => run_reads = 0
    /\ (read_csv_error(csv) # "none" /\ pc # "load") =>
          run_reads = 1 /\ ~cache.hit
    /\ pc = "load" => FreshRun

\* C6 witness: a later run has rendered the page from the cached table
\* without reading the file.
SecondRunFromCache ==
    /\ first.set
    /\ first.ended = "done"
    /\ pc = "done"
    /\ cache.hit
    /\ csv_reads = 1
    /\ run_reads = 0

\* C7: loading a well-formed CSV yields one record per CSV row, each with
\* every CSV column as read (the numeric ones other than efficiency
\* non-negative) and season = '2024-25'; the season select box offers that
\* one label and the season filter keeps every row.
LoadYieldsAllRecords ==
    /\ (pc # "load" /\ read_csv_error(csv) = "none") =>
          /\ Len(df) = Len(csv.rows)
          /\ \A i \in DOMAIN df :
                /\ DOMAIN df[i] = CsvColumns \cup {"season"}
                /\ \A c \in CsvColumns : df[i][c] = csv.rows[i][c]
                /\ \A c \in NumericColumns \ {"efficiency"} : df[i][c] >= 0
                /\ df[i].season = "2024-25"
    /\ selected_season # "" =>
          /\ seasons = <<"2024-25">>
          /\ selected_season = "2024-25"
    /\ pc \in {"players", "position"} => filtered_df = df

\* C7 witness: a table of several rows, one of negative efficiency, has gone
\* through the season filter.
SeasonFilterKeptAll ==
    /\ pc = "position"
    /\ Len(df) >= 2
    /\ Len(filtered_df) = Len(csv.rows)
    /\ \E i \in DOMAIN df : df[i].efficiency < 0

\* C8: when reading the CSV fails, the run ends in the fault state with
\* that error after one read, and nothing after the load is executed: no
\* widget is read, nothing is filtered, aggregated or rendered, and nothing
\* is cached.
FailedLoadAborts ==
    (read_csv_error(csv) # "none" /\ pc # "load") =>
        /\ pc = "fault"
        /\ fault = read_csv_error(csv)
        /\ phases = <<"load">>
        /\ run_reads = 1
        /\ ~cache.hit
        /\ FreshRun

\* C8 witness: a run over a malformed file has ended in the fault state.
MalformedLoadFaulted ==
    /\ csv.status = "malformed"
    /\ pc = "fault"
    /\ fault = "ParserError"
    /\ csv_reads = 1

PhaseRank(ph) ==
    CASE ph = "load" -> 1
      [] ph = "widget" -> 2
      [] ph = "filter" -> 3
      [] ph = "aggregate" -> 3
      [] ph = "render" -> 4

\* C9 as stated: every run goes through load, then reading the widgets,
\* then filtering and aggregating, then rendering, in that order.
PhasesInStatedOrder ==
    \A i, j \in DOMAIN phases :
        i < j => PhaseRank(phases[i]) <= PhaseRank(phases[j])

\* The phases of a whole run, step by step, for the widget values read.
ScriptPhases ==
    <<"load">>
    \o <<"widget", "filter">>
    \o <<"widget">>
    \o (IF selected_position = AllPositions THEN <<"widget">>
        ELSE <<"widget", "filter">>)
    \o (IF selected_players = {} THEN <<"render">>
        ELSE <<"filter", "aggregate", "render">>)
    \o <<"widget", "filter", "render">>
    \o <<"aggregate", "render">>
    \o <<"aggregate", "render">>

\* C9 amended: every run executes the script's steps in one fixed order
\* that starts with the load, but a step reads its widget, filters,
\* aggregates and renders before the next step reads its own widget (the
\* season filter runs before the player and position widgets are read; tab
\* 2's select box is read after tab 1 is rendered).  What a finished run
\* has rendered, and how it ended, is a function of the table and the
\* widget values: it equals what the first finished run of the process
\* rendered whenever the widget values are the same.
FixedScriptAndDeterministic ==
    /\ Len(phases) <= Len(ScriptPhases)
    /\ \A k \in DOMAIN phases : phases[k] = ScriptPhases[k]
    /\ pc = "done" => phases = ScriptPhases
    /\ (pc \in {"done", "fault"} /\ first.set /\ first.widgets = Widgets) =>
          /\ first.ended = pc
          /\ first.rendered = Rendered

\* C9 witness: a later run with the widget values of the first run, a
\* position filter and a selection among them, has rendered every tab.
SameWidgetsRunDone ==
    /\ first.set
    /\ pc = "done"
    /\ first.widgets = Widgets
    /\ selected_position # AllPositions
    /\ selected_players # {}
    /\ Len(df) >= 2

====
